---- MODULE Spec2Model ----
(***************************************************************************)
(* MinHash signatures and LSH banding of robertomagno1/ADM-HM4.            *)
(*                                                                         *)
(* Python sequences are 0-based; the model's sequences are 1-based, so the *)
(* hash function index i of the source is position i+1 here, and band      *)
(* indices keep the source's 0-based numbering.                            *)
(***************************************************************************)
EXTENDS Integers, Sequences, FiniteSets, TLC

VARIABLES
    \* --- the MinHash object (src/minhash_similarity.py:20-27)
    n_hash_functions, prime, type_function, a, b, coefficients,
    \* --- the last call made and its outcome
    op,             \* name of the last operation
    status,         \* "ok", or the exception the last operation raised
    movie_set,      \* argument of create_signature
    signature,      \* array returned by create_signature: [dtype, vals]
    \* --- the matrix path (src/libs/lsh_functions.py)
    characteristic_matrix,  \* argument: rows are movies, columns are users
    hash_params,            \* the (a, b) pairs drawn by the call
    signature_matrix,       \* result: [dtype, cols], cols[col][h]
    \* --- the LSH object (src/locality_sensitive_hashing.py:11-15)
    num_bands, rows_per_band,
    buckets,                \* dict: bucket key -> list of user ids
    \* --- arguments and result of the LSH calls
    signatures,             \* store handed to the last build_buckets, in dict order
    build_status,           \* "none", or how the last build_buckets ended
    n_builds,               \* build_buckets calls made on this LSH object
    query_signature, query_user_id,
    candidates,             \* list returned by query
    \* --- arguments and result of the similarity estimates
    signature1, signature2,
    similarity,             \* the quotient returned, as [num, den]
    \* --- the constructor call and the calls of the module-level functions
    args,                   \* arguments of the last such call, by parameter name
    result,                 \* what it returned
    \* --- the last direct call of MinHash.hash_function
    hash_call               \* [x, a, b, i, value]

mhVars     == <<n_hash_functions, prime, type_function, a, b, coefficients>>
sigVars    == <<movie_set, signature>>
matrixVars == <<characteristic_matrix, hash_params, signature_matrix>>
lshVars    == <<num_bands, rows_per_band, buckets>>
queryVars  == <<query_signature, query_user_id, candidates>>
buildVars  == <<signatures, build_status, n_builds>>
simVars    == <<signature1, signature2, similarity>>
callVars   == <<args, result>>
vars       == <<mhVars, op, status, sigVars, matrixVars, lshVars, buildVars, queryVars, simVars,
                callVars, hash_call>>

----------------------------------------------------------------------------
(* Bounds of the model                                                     *)

MaxN    == 2      \* n_hash_functions ranges over 1..MaxN
MaxItem == 2      \* item identifiers range over 0..MaxItem
MaxA    == 2      \* multipliers a[i] drawn from 1..MaxA (within 1..prime-1)
MaxB    == 1      \* offsets b[i] drawn from 0..MaxB (within 0..prime-1)
MaxMovies == 2    \* a characteristic matrix has 1..MaxMovies rows
MaxCols   == 2    \* and 1..MaxCols columns
MaxBands  == 2    \* num_bands ranges over 1..MaxBands
MaxRows   == 2    \* rows_per_band ranges over 1..MaxRows
MaxLen    == 2    \* stored signatures have 1..MaxLen entries
MaxUsers  == 2    \* user ids range over 1..MaxUsers
MaxBuilds == 2    \* build_buckets calls followed on one LSH object
GridPoints   == 4 \* similarity values of a curve (np.linspace(0, 1, 100) has 100)
MaxCurveN    == 4 \* n of plot_probability_curve ranges over 1..MaxCurveN
MaxBandValue == 4 \* entries of band_values range over 0..MaxBandValue
MaxView      == 2 \* num_buckets of view_buckets ranges over 0..MaxView

\* prime_number arguments handed to the constructor
PrimeNumbers == {3, 5}
\* coefficient triples the polynomial draw is taken from (each in 1..prime-1)
CoefTriples  == {<<1, 2, 1>>, <<2, 1, 2>>}

----------------------------------------------------------------------------
(* Values                                                                  *)

\* np.inf, the initial content of a signature array.  It is larger than
\* every hash value, which is all min() and np.minimum() ask of it.
Inf == 2147483647

\* The C conversion of an infinite double to int64 is undefined; numpy
\* yields the most negative int64 on x86-64 and the most positive one on
\* aarch64.  TLC's integers are 32 bits wide, so the two int64
\* extremes are represented by two values outside every hash range.
Int64Min == -2147483647
Int64Max == 2147483646
CastOfInf == {Int64Min, Int64Max}

Items    == 0..MaxItem
ItemSets == SUBSET Items

Min2(x, y) == IF x <= y THEN x ELSE y

\* every order in which a Python set/dict can hand out the elements of S
Orders(S) ==
    {s \in [1..Cardinality(S) -> S] : \A i, j \in 1..Cardinality(S) : i # j => s[i] # s[j]}

\* the elements of a list
Range(seq) == {seq[i] : i \in 1..Len(seq)}

RECURSIVE Pow(_, _)
Pow(x, e) == IF e = 0 THEN 1 ELSE x * Pow(x, e - 1)

----------------------------------------------------------------------------
(* MinHash                                                                 *)

\* a mutant of the normalisation: the name is cut down to its short form
LowerAbbreviated(s) ==
    CASE s \in {"linear", "Linear", "L"}  -> "l"
      [] s = "polynomial"                -> "p"
      [] s = "universal"                 -> "u"
      [] OTHER                           -> s

\* str.lower() on the type names the model uses
Lower(s) ==
    CASE s = "Linear" -> "linear"
      [] s = "L"      -> "l"
      [] OTHER        -> s

ValidTypes == {"linear", "universal", "polynomial"}

\* the families MinHash.__init__ can leave behind for (n, p, kind)
Families(n, p, kind) ==
    [n_hash_functions : {n}, prime : {p}, type_function : {kind},
     a : [1..n -> {x \in 1..MaxA : x <= p - 1}],
     b : [1..n -> {x \in 0..MaxB : x <= p - 1}],
     coefficients : [1..n -> {t \in CoefTriples : \A k \in 1..3 : t[k] \in 1..(p - 1)}]]

\* the larger modulus of the universal kind
m == 104729

\* hash_function raises ValueError on a type name it does not know
hash_function_raises(tf) ==
    Lower(tf) \notin {"linear", "l", "polynomial", "p", "universal", "u"}

\* a mutant of the polynomial kind: the exponents start at 1, not at 0
hash_function_exponent_from_one(tf, p, coefs, x, ai, bi, i) ==
    LET t == Lower(tf) IN
    IF t \in {"linear", "l"} THEN (ai * x + bi) % p
    ELSE IF t \in {"polynomial", "p"} THEN
        LET c == coefs[i] IN
        (c[1] * Pow(x, 1) + c[2] * Pow(x, 2) + c[3] * Pow(x, 3)) % p
    ELSE
        LET hash_value1 == (ai * x + bi) % p
            hash_value2 == (ai * hash_value1 + bi) % m
        IN  (hash_value1 + hash_value2) % m

\* MinHash.hash_function(x, a, b, i) for an object whose fields are
\* (tf, p, coefs); i is the 1-based position of the hash function
hash_function(tf, p, coefs, x, ai, bi, i) ==
    LET t == Lower(tf) IN
    IF t \in {"linear", "l"} THEN (ai * x + bi) % p
    ELSE IF t \in {"polynomial", "p"} THEN
        LET c == coefs[i] IN
        (c[1] * Pow(x, 0) + c[2] * Pow(x, 1) + c[3] * Pow(x, 2)) % p
    ELSE
        LET hash_value1 == (ai * x + bi) % p
            hash_value2 == (ai * hash_value1 + bi) % m
        IN  (hash_value1 + hash_value2) % m

\* a mutant of the inner loop: the last hash value wins instead of the least
UpdateSignatureLastWins(sig, movie_id) ==
    [i \in 1..n_hash_functions |->
        hash_function(type_function, prime, coefficients, movie_id, a[i], b[i], i)]

\* the inner loop of create_signature for one movie id
UpdateSignature(sig, movie_id) ==
    [i \in 1..n_hash_functions |->
        Min2(sig[i],
             hash_function(type_function, prime, coefficients, movie_id, a[i], b[i], i))]

\* the outer loop of create_signature over the iteration order `order`
RECURSIVE SignatureLoop(_, _)
SignatureLoop(sig, order) ==
    IF order = <<>> THEN sig
    ELSE SignatureLoop(UpdateSignature(sig, Head(order)), Tail(order))

\* ndarray.astype(int) of a float array; c is what the platform makes of inf
AsTypeInt(arr, c) ==
    [dtype |-> "int", vals |-> [i \in 1..Len(arr) |-> IF arr[i] = Inf THEN c ELSE arr[i]]]

\* MinHash.create_signature(movie_set), iterating the set in `order`
create_signature(order, c) ==
    AsTypeInt(SignatureLoop([i \in 1..n_hash_functions |-> Inf], order), c)

NoSignature == [dtype |-> "none", vals |-> <<>>]

NoMatrix == <<>>
EmptyDict == <<>>

ResetSig    == movie_set' = {} /\ signature' = NoSignature
NoSimilarity == [num |-> 0, den |-> 0]
ResetSim    ==
    /\ signature1' = NoSignature
    /\ signature2' = NoSignature
    /\ similarity' = NoSimilarity
ResetQuery  ==
    /\ query_signature' = NoSignature
    /\ query_user_id' = 0
    /\ candidates' = <<>>
ResetMatrix ==
    /\ characteristic_matrix' = NoMatrix
    /\ hash_params' = <<>>
    /\ signature_matrix' = NoMatrix

NoArgs     == [fn |-> "none"]
NoResult   == [kind |-> "none"]
NoHashCall == [x |-> 0, a |-> 0, b |-> 0, i |-> 0, value |-> -1]
ResetCall  == args' = NoArgs /\ result' = NoResult

CreateSignature ==
    \E S \in ItemSets : \E order \in Orders(S) :
      \E c \in IF S = {} THEN CastOfInf ELSE {Int64Min} :
        /\ op' = "create_signature"
        /\ movie_set' = S
        /\ IF S # {} /\ hash_function_raises(type_function)
             THEN status' = "ValueError" /\ signature' = NoSignature
             ELSE status' = "ok" /\ signature' = create_signature(order, c)
        /\ type_function' = IF S = {} THEN type_function ELSE Lower(type_function)
        /\ UNCHANGED <<n_hash_functions, prime, a, b, coefficients>>
        /\ ResetMatrix /\ ResetSim /\ ResetCall
        /\ UNCHANGED <<lshVars, buildVars, queryVars, hash_call>>

\* no call made yet, whatever the arguments of the call to come
InitState ==
    /\ op = "init"
    /\ status = "ok"
    /\ movie_set = {}
    /\ signature = NoSignature
    /\ characteristic_matrix = NoMatrix
    /\ hash_params = <<>>
    /\ signature_matrix = NoMatrix
    /\ num_bands = 1
    /\ rows_per_band = 1
    /\ buckets = EmptyDict
    /\ signatures = <<>>
    /\ build_status = "none"
    /\ n_builds = 0
    /\ query_signature = NoSignature
    /\ query_user_id = 0
    /\ candidates = <<>>
    /\ signature1 = NoSignature
    /\ signature2 = NoSignature
    /\ similarity = NoSimilarity
    /\ result = NoResult
    /\ hash_call = NoHashCall

InitCall ==
    /\ InitState
    /\ args = NoArgs

InitMinHash ==
    /\ \E n \in 1..MaxN : \E p \in PrimeNumbers : \E kind \in ValidTypes :
         \E f \in Families(n, p, kind) :
            /\ n_hash_functions = f.n_hash_functions
            /\ prime = f.prime
            /\ type_function = f.type_function
            /\ a = f.a
            /\ b = f.b
            /\ coefficients = f.coefficients
    /\ InitCall

\* create_signature is a function of the object and of its argument: the
\* specification applies it once to every family, item set and order
CreateSignatureOnce == op = "init" /\ CreateSignature

NextMinHash == CreateSignatureOnce

SpecMinHash == InitMinHash /\ [][NextMinHash]_vars

----------------------------------------------------------------------------
(* C1                                                                      *)

SetMin(S) == CHOOSE x \in S : \A y \in S : x <= y

\* C1: for a non-empty item set, create_signature returns n_hash_functions
\* entries, the i-th being the least hash_function(item, a[i], b[i], i)
\* over the items of the set, whatever the iteration order was.
C1_SignatureIsMinimum ==
    (op = "create_signature" /\ movie_set # {}) =>
        /\ Len(signature.vals) = n_hash_functions
        /\ \A i \in 1..n_hash_functions :
             signature.vals[i] =
                SetMin({hash_function(type_function, prime, coefficients, x, a[i], b[i], i) :
                            x \in movie_set})

\* a signature of two hash functions over at least two items whose hash
\* values differ, so that the minimum is a real choice
C1_Witness ==
    /\ op = "create_signature"
    /\ n_hash_functions = 2
    /\ Cardinality(movie_set) >= 2
    /\ \E x, y \in movie_set :
         hash_function(type_function, prime, coefficients, x, a[1], b[1], 1)
            # hash_function(type_function, prime, coefficients, y, a[1], b[1], 1)
    /\ signature.vals[1] # signature.vals[2]

----------------------------------------------------------------------------
(* The constructor and direct calls of hash_function                       *)

\* arguments handed to MinHash(...)
NArgs     == (-1)..MaxN
PrimeArgs == PrimeNumbers \cup {1, 10513}     \* 10513 is the default
TypeArgs  == ValidTypes \cup {"Linear", "l", "jaccard"}

\* random.randint(lo, hi) draws from lo..hi and raises ValueError when
\* that range is empty
RandomRandint(lo, hi) == lo..hi

\* the family of the largest draws: every coefficient is prime - 1
EdgeFamilies(n, p, kind) ==
    [n_hash_functions : {n}, prime : {p}, type_function : {kind},
     a : {[i \in 1..n |-> p - 1]},
     b : {[i \in 1..n |-> p - 1]},
     coefficients : {[i \in 1..n |-> <<p - 1, p - 1, p - 1>>]}]

\* a mutant of the checks: the type name is not looked at
init_raises_unchecked_type(n, prime_number, kind) ==
    \/ n <= 0
    \/ RandomRandint(1, prime_number - 1) = {}
    \/ RandomRandint(0, prime_number - 1) = {}

\* MinHash.__init__ raises ValueError: the two checks of lines 14-18, and
\* the draws of lines 25-27 when prime_number leaves them no value
init_raises(n, prime_number, kind) ==
    \/ n <= 0
    \/ kind \notin ValidTypes
    \/ RandomRandint(1, prime_number - 1) = {}
    \/ RandomRandint(0, prime_number - 1) = {}

\* the name a failed constructor call leaves unbound: no object
NoType == "None"
HasMinHash == type_function # NoType

\* minhash = MinHash(n_hash_functions, prime_number, type_function)
NewMinHash ==
    \E n \in NArgs : \E p \in PrimeArgs : \E kind \in TypeArgs :
        /\ op' = "MinHash"
        /\ args' = [fn |-> "MinHash", n_hash_functions |-> n, prime_number |-> p,
                    type_function |-> kind]
        /\ result' = NoResult
        /\ IF init_raises(n, p, kind)
             THEN /\ status' = "ValueError"
                  /\ n_hash_functions' = 0
                  /\ prime' = 0
                  /\ type_function' = NoType
                  /\ a' = <<>>
                  /\ b' = <<>>
                  /\ coefficients' = <<>>
             ELSE \E f \in Families(n, p, kind) \cup EdgeFamilies(n, p, kind) :
                  /\ status' = "ok"
                  /\ n_hash_functions' = f.n_hash_functions
                  /\ prime' = f.prime
                  /\ type_function' = f.type_function
                  /\ a' = f.a
                  /\ b' = f.b
                  /\ coefficients' = f.coefficients
        /\ hash_call' = NoHashCall
        /\ ResetSig /\ ResetMatrix /\ ResetSim
        /\ UNCHANGED <<lshVars, buildVars, queryVars>>

\* self.hash_function(x, self.a[i], self.b[i], i), as line 78 calls it;
\* idx is the 1-based position of hash function i
HashFunction ==
    /\ HasMinHash
    /\ \E x \in Items : \E idx \in 1..n_hash_functions :
        /\ op' = "hash_function"
        /\ type_function' = Lower(type_function)
        /\ IF hash_function_raises(type_function)
             THEN /\ status' = "ValueError"
                  /\ hash_call' = [x |-> x, a |-> a[idx], b |-> b[idx], i |-> idx, value |-> -1]
             ELSE /\ status' = "ok"
                  /\ hash_call' = [x |-> x, a |-> a[idx], b |-> b[idx], i |-> idx,
                                   value |-> hash_function(type_function, prime, coefficients,
                                                           x, a[idx], b[idx], idx)]
        /\ UNCHANGED <<n_hash_functions, prime, a, b, coefficients>>
        /\ ResetSig /\ ResetMatrix /\ ResetSim /\ ResetCall
        /\ UNCHANGED <<lshVars, buildVars, queryVars>>

\* before the constructor is called: no object
InitHash ==
    /\ n_hash_functions = 0
    /\ prime = 0
    /\ type_function = NoType
    /\ a = <<>>
    /\ b = <<>>
    /\ coefficients = <<>>
    /\ InitCall

\* one constructor call, then any number of hash_function calls on the
\* object it returned
NextHash ==
    \/ op = "init" /\ NewMinHash
    \/ HashFunction

SpecHash == InitHash /\ [][NextHash]_vars

----------------------------------------------------------------------------
(* C13                                                                     *)

\* C13: hash_function returns (a*key + b) mod prime for the linear kind,
\* (c0 + c1*key + c2*key^2) mod prime with the i-th coefficient triple for
\* the polynomial kind and, for the universal kind, (h1 + h2) mod 104729
\* with h1 = (a*key + b) mod prime and h2 = (a*h1 + b) mod 104729; the value
\* lies in 0..prime-1 (linear, polynomial) or in 0..104728 (universal).
C13_HashFormulasAndRanges ==
    op = "hash_function" =>
        LET key   == hash_call.x
            ca    == hash_call.a
            cb    == hash_call.b
            c     == coefficients[hash_call.i]
            value == hash_call.value
            h1    == (ca * key + cb) % prime
            h2    == (ca * h1 + cb) % 104729
        IN  /\ status = "ok"
            /\ ca = a[hash_call.i] /\ cb = b[hash_call.i]
            /\ type_function \in {"linear", "polynomial", "universal"}
            /\ type_function = "linear" =>
                  value = (ca * key + cb) % prime /\ value \in 0..(prime - 1)
            /\ type_function = "polynomial" =>
                  /\ value = (c[1] + c[2] * key + c[3] * key * key) % prime
                  /\ value \in 0..(prime - 1)
            /\ type_function = "universal" =>
                  value = (h1 + h2) % 104729 /\ value \in 0..104728

\* a universal hash in which both reductions cut the value down: modulo
\* prime in the first round and modulo 104729 in the second
C13_Witness ==
    /\ op = "hash_function" /\ status = "ok"
    /\ type_function = "universal"
    /\ hash_call.a * hash_call.x + hash_call.b >= prime
    /\ hash_call.a * ((hash_call.a * hash_call.x + hash_call.b) % prime) + hash_call.b >= 104729
    /\ hash_call.value >= prime

----------------------------------------------------------------------------
(* C14                                                                     *)

\* C14: MinHash(...) fails with the invalid-parameter error and leaves no
\* object when n_hash_functions <= 0 or the kind is not one of linear,
\* polynomial, universal; on an object a constructor call returned, no
\* hash_function call ends in the "Unknown hash function type" error.
C14_InvalidParameterRejected ==
    /\ (/\ op = "MinHash"
        /\ \/ args.n_hash_functions <= 0
           \/ args.type_function \notin {"linear", "polynomial", "universal"})
          => (status = "ValueError" /\ ~HasMinHash)
    /\ (op = "MinHash" /\ status = "ok") => HasMinHash
    /\ op = "hash_function" => status = "ok"

\* a name hash_function would accept once lower-cased, refused at
\* construction
C14_Witness ==
    /\ op = "MinHash" /\ status = "ValueError"
    /\ args.n_hash_functions > 0
    /\ args.prime_number > 1
    /\ Lower(args.type_function) = "linear"

----------------------------------------------------------------------------
(* The matrix path                                                         *)

\* is_prime(k): trial division by 2..int(k**0.5)
is_prime(k) ==
    /\ k >= 2
    /\ \A i \in 2..k : (i * i <= k) => (k % i # 0)

RECURSIVE next_prime_from(_)
next_prime_from(p) == IF is_prime(p) THEN p ELSE next_prime_from(p + 1)

\* next_prime(n): the least prime greater than n
next_prime(n) == next_prime_from(n + 1)

Matrices ==
    UNION {[1..nm -> [1..nu -> {0, 1}]] : nm \in 1..MaxMovies, nu \in 1..MaxCols}

\* np.random.randint(low, high) draws from low..high-1 and raises
\* ValueError when that range is empty
RandInt(low, high) == low..(high - 1)

\* np.minimum(column, hashes)
Minimum(column, hashes) == [h \in 1..Len(column) |-> Min2(column[h], hashes[h])]

\* the body of `for row in range(n_movies)`, rows row..n_movies-1 still to do;
\* sm[col] is column col of the signature matrix
RECURSIVE MatrixRows(_, _, _, _, _)
MatrixRows(sm, cm, params, mod_prime, row) ==
    IF row >= Len(cm) THEN sm
    ELSE
        LET hashes == [h \in 1..Len(params) |->
                          (params[h][1] * row + params[h][2]) % mod_prime]
            sm2 == [col \in 1..Len(sm) |->
                       IF cm[row + 1][col] = 1 THEN Minimum(sm[col], hashes)
                       ELSE sm[col]]
        IN  MatrixRows(sm2, cm, params, mod_prime, row + 1)

\* generate_minhash_signatures(characteristic_matrix, n_hashes) once the
\* hash parameters are drawn; the result is a float array, column by column
generate_minhash_signatures(cm, params) ==
    LET n_movies == Len(cm)
        n_users  == Len(cm[1])
        full     == [col \in 1..n_users |-> [h \in 1..Len(params) |-> Inf]]
    IN  [dtype |-> "float",
         cols  |-> MatrixRows(full, cm, params, next_prime(n_movies), 0)]

GenerateMinhashSignatures ==
    \E cm \in Matrices : \E nh \in 1..MaxN :
        LET n_movies == Len(cm) IN
        /\ op' = "generate_minhash_signatures"
        /\ characteristic_matrix' = cm
        /\ IF RandInt(1, n_movies) = {} \/ RandInt(0, n_movies) = {}
             THEN /\ status' = "ValueError"
                  /\ hash_params' = <<>>
                  /\ signature_matrix' = NoMatrix
             ELSE \E params \in [1..nh -> RandInt(1, n_movies) \X RandInt(0, n_movies)] :
                  /\ status' = "ok"
                  /\ hash_params' = params
                  /\ signature_matrix' = generate_minhash_signatures(cm, params)
        /\ ResetSig /\ ResetSim /\ ResetCall
        /\ UNCHANGED <<mhVars, lshVars, buildVars, queryVars, hash_call>>

\* one family per (n, prime): the draw a[i] = 1, b[i] = i mod 2
InitSignatures ==
    /\ \E n \in 1..MaxN : \E p \in PrimeNumbers :
            /\ n_hash_functions = n
            /\ prime = p
            /\ type_function = "linear"
            /\ a = [i \in 1..n |-> 1]
            /\ b = [i \in 1..n |-> i % 2]
            /\ coefficients = [i \in 1..n |-> <<1, 2, 1>>]
    /\ InitCall

NextSignatures == CreateSignature \/ GenerateMinhashSignatures

SpecSignatures == InitSignatures /\ [][NextSignatures]_vars

----------------------------------------------------------------------------
(* C2                                                                      *)

FiniteNonNegative(v) == v \in Nat /\ v # Inf /\ v \notin CastOfInf

\* C2: every signature returned by create_signature and every column of the
\* matrix returned by generate_minhash_signatures holds only finite
\* non-negative integers; neither infinity nor its integer conversion is
\* ever returned, an empty item set included.
C2_FiniteNonNegative ==
    /\ (op = "create_signature" /\ status = "ok") =>
            \A i \in 1..Len(signature.vals) : FiniteNonNegative(signature.vals[i])
    /\ (op = "generate_minhash_signatures" /\ status = "ok") =>
            \A col \in 1..Len(signature_matrix.cols) :
                \A h \in 1..Len(signature_matrix.cols[col]) :
                    FiniteNonNegative(signature_matrix.cols[col][h])

----------------------------------------------------------------------------
(* The matrix path over a sparse interaction matrix                        *)

\* the (row, col) pairs of the entries of a matrix that hold a 1, 0-based
SparseEntries(cm) ==
    {<<row, col>> \in (0..(Len(cm) - 1)) \X (0..(Len(cm[1]) - 1)) : cm[row + 1][col + 1] = 1}

\* zip(a_values, b_values) stops at the shorter of the two
Zip(a_values, b_values) ==
    [h \in 1..Min2(Len(a_values), Len(b_values)) |-> <<a_values[h], b_values[h]>>]

\* signature_matrix[:, col] = np.minimum(signature_matrix[:, col], hash_values):
\* a list as long as the column is taken entry by entry, a list of one
\* value is broadcast, and any other length raises ValueError
MinimumInto(column, hash_values) ==
    IF Len(hash_values) = Len(column)
        THEN [status |-> "ok", column |-> Minimum(column, hash_values)]
    ELSE IF Len(hash_values) = 1
        THEN [status |-> "ok",
              column |-> [h \in 1..Len(column) |-> Min2(column[h], hash_values[1])]]
    ELSE [status |-> "ValueError", column |-> column]

\* the loop over zip(interaction_sparse_matrix.row, interaction_sparse_matrix.col)
RECURSIVE InteractionLoop(_, _, _, _)
InteractionLoop(sm, entries, params, mod_prime) ==
    IF entries = <<>> THEN [status |-> "ok", cols |-> sm]
    ELSE
        LET row == Head(entries)[1]
            col == Head(entries)[2]
            hash_values == [h \in 1..Len(params) |->
                               (params[h][1] * row + params[h][2]) % mod_prime]
            upd == MinimumInto(sm[col + 1], hash_values)
        IN  IF upd.status # "ok" THEN [status |-> upd.status, cols |-> sm]
            ELSE InteractionLoop([sm EXCEPT ![col + 1] = upd.column],
                                 Tail(entries), params, mod_prime)

\* generate_minhash_signatures_with_interaction on a matrix of shape
\* (n_movies, n_users) whose stored entries are `entries`, in their order
generate_minhash_signatures_with_interaction(n_movies, n_users, entries, n_hashes, a_values, b_values) ==
    LET mod_prime == next_prime(n_movies)
        full      == [col \in 1..n_users |-> [h \in 1..n_hashes |-> Inf]]
    IN  InteractionLoop(full, entries, Zip(a_values, b_values), mod_prime)

\* The coefficient lists handed in are those of the MinHash object, which
\* is how one family serves both paths.
GenerateMinhashSignaturesWithInteraction ==
    \E cm \in Matrices : \E entries \in Orders(SparseEntries(cm)) : \E n_hashes \in 1..MaxN :
        LET res == generate_minhash_signatures_with_interaction(
                       Len(cm), Len(cm[1]), entries, n_hashes, a, b) IN
        /\ op' = "generate_minhash_signatures_with_interaction"
        /\ status' = res.status
        /\ characteristic_matrix' = cm
        /\ hash_params' = Zip(a, b)
        /\ signature_matrix' = IF res.status = "ok"
                                 THEN [dtype |-> "float", cols |-> res.cols]
                                 ELSE NoMatrix
        /\ args' = [fn |-> "generate_minhash_signatures_with_interaction",
                    entries |-> entries, n_hashes |-> n_hashes]
        /\ result' = NoResult
        /\ ResetSig /\ ResetSim
        /\ UNCHANGED <<mhVars, lshVars, buildVars, queryVars, hash_call>>

\* the linear families whose modulus is the one the matrix path takes for
\* some number of rows: MinHash(n, prime_number = next_prime(n_movies))
InitEquivalence ==
    /\ \E n \in 1..MaxN : \E nm \in 1..MaxMovies :
         LET p == next_prime(nm) IN
         /\ n_hash_functions = n
         /\ prime = p
         /\ type_function = "linear"
         /\ a \in [1..n -> {x \in 1..MaxA : x <= p - 1}]
         /\ b \in [1..n -> {x \in 0..MaxB : x <= p - 1}]
         /\ coefficients = [i \in 1..n |-> <<1, 1, 1>>]
    /\ InitCall

\* no call has been made on the state yet
FirstCall == op = "init"

\* each of the three functions applied once to every family and argument
NextEquivalence ==
    \/ FirstCall /\ GenerateMinhashSignaturesWithInteraction
    \/ FirstCall /\ GenerateMinhashSignatures
    \/ FirstCall /\ CreateSignature

SpecEquivalence == InitEquivalence /\ [][NextEquivalence]_vars

----------------------------------------------------------------------------
(* C12                                                                     *)

\* the item set of the entity of column col (1-based): the row indices
\* at which the column holds a 1
ItemSetOf(cm, col) == {row \in 0..(Len(cm) - 1) : cm[row + 1][col] = 1}

\* the MinHash object is the family the matrix call worked with: the linear
\* kind, the modulus next_prime(n_movies) and the same (a, b) pairs
SameFamily ==
    /\ Lower(type_function) = "linear"
    /\ prime = next_prime(Len(characteristic_matrix))
    /\ Len(hash_params) = n_hash_functions
    /\ \A h \in 1..n_hash_functions : hash_params[h] = <<a[h], b[h]>>
    /\ Len(signature_matrix.cols[1]) = n_hash_functions

\* C12: for one hash family and one membership matrix, each column of the
\* matrix returned by the matrix path holds the values create_signature
\* returns for that column's item set (compared as numbers: the matrix is a
\* float array, the signature an int array).
C12_MatrixEqualsPerSet ==
    (/\ op \in {"generate_minhash_signatures", "generate_minhash_signatures_with_interaction"}
     /\ status = "ok"
     /\ SameFamily) =>
        \A col \in 1..Len(signature_matrix.cols) :
            \A order \in Orders(ItemSetOf(characteristic_matrix, col)) : \A c \in CastOfInf :
                signature_matrix.cols[col] = create_signature(order, c).vals

----------------------------------------------------------------------------
(* LSH                                                                     *)

UserIds == 1..MaxUsers

\* Signature entries.  31 is the multiplier of create_bucket_hash; with it
\* among the entries, different bands fold to the same hash code.
SigVals == {0, 1, 31}

\* integer signatures, as create_signature returns them, and float ones, as
\* the columns of generate_minhash_signatures are (their entries play no
\* part in what follows, so one float array per length is enough)
IntSigs   == {[dtype |-> "int", vals |-> v] : v \in UNION {[1..l -> SigVals] : l \in 1..MaxLen}}
FloatSigs == {[dtype |-> "float", vals |-> [i \in 1..l |-> 0]] : l \in 1..MaxLen}
Sigs      == IntSigs \cup FloatSigs

\* a signature dict in its iteration order: distinct user ids
Stores ==
    UNION {{st \in [1..k -> [user_id : UserIds, signature : Sigs]] :
                \A i, j \in 1..k : i # j => st[i].user_id # st[j].user_id} : k \in 0..MaxUsers}

\* x % (2**63 - 1).  Every non-negative integer TLC can represent
\* is below 2**63 - 1 (it stops with an overflow error beyond 2**31 - 1),
\* so within the model the reduction returns its argument.
ModMersenne63(x) == x

\* the loop of create_bucket_hash over the band's values
RECURSIVE FoldBand(_, _)
FoldBand(hash_code, vals) ==
    IF vals = <<>> THEN hash_code
    ELSE FoldBand(ModMersenne63(hash_code * 31 + Head(vals)), Tail(vals))

\* f"{bucket_code:06d}": the six decimal digits, zero padded
Format06d(bucket_code) ==
    << (bucket_code \div 100000) % 10, (bucket_code \div 10000) % 10,
       (bucket_code \div 1000) % 10,   (bucket_code \div 100) % 10,
       (bucket_code \div 10) % 10,     bucket_code % 10 >>

\* format code 'd' raises ValueError for a float, which hash_code is as soon
\* as one float value has been folded in
create_bucket_hash_raises(band_signature) ==
    band_signature.dtype = "float" /\ band_signature.vals # <<>>

\* LSH.create_bucket_hash(band_idx, band_signature)
create_bucket_hash(band_idx, band_signature) ==
    LET hash_code   == FoldBand(band_idx, band_signature.vals)
        bucket_code == hash_code % 1000000
    IN  [tag |-> "LSH-", digits |-> Format06d(bucket_code)]

\* tuple(signature[start:end]); Python clamps both ends to the length
Slice(sig, start, end) ==
    LET l == Len(sig.vals)
        s == IF start > l THEN l ELSE start
        e == IF end > l THEN l ELSE end
    IN  [dtype |-> sig.dtype, vals |-> SubSeq(sig.vals, s + 1, e)]

\* the band of `sig` the build and the query cut out for band_idx
Band(sig, band_idx, r) == Slice(sig, band_idx * r, band_idx * r + r)

\* a mutant of the insertion: the bucket is overwritten, not appended to
AddToBucketOverwrite(bk, key, user_id) ==
    IF key \in DOMAIN bk THEN [bk EXCEPT ![key] = <<user_id>>]
    ELSE bk @@ (key :> <<user_id>>)

\* lines 66-68: create the list if absent, then append
AddToBucket(bk, key, user_id) ==
    IF key \in DOMAIN bk THEN [bk EXCEPT ![key] = Append(@, user_id)]
    ELSE bk @@ (key :> <<user_id>>)

\* a mutant of the reset: the build goes on from the index it finds
ResetBucketsKeep(old) == old

\* line 49: self.buckets = {}
ResetBuckets(old) == EmptyDict

\* the two loops of build_buckets from entity e (1-based) and band band_idx
\* on; the result is the index and "ok", or the index as it stood when
\* create_bucket_hash raised
RECURSIVE BuildLoop(_, _, _, _, _, _)
BuildLoop(bk, store, e, band_idx, nb, r) ==
    IF e > Len(store) THEN [buckets |-> bk, status |-> "ok"]
    ELSE IF band_idx >= nb THEN BuildLoop(bk, store, e + 1, 0, nb, r)
    ELSE
        LET band_signature == Band(store[e].signature, band_idx, r) IN
        IF create_bucket_hash_raises(band_signature)
        THEN [buckets |-> bk, status |-> "ValueError"]
        ELSE BuildLoop(AddToBucket(bk, create_bucket_hash(band_idx, band_signature),
                                   store[e].user_id),
                       store, e, band_idx + 1, nb, r)

\* LSH.build_buckets(signatures) on an object whose index is `old`
build_buckets(old, store, nb, r) == BuildLoop(ResetBuckets(old), store, 1, 0, nb, r)

\* a mutant of the query loop: only the first band is looked up
QueryLoopFirstBand(cand, sig, band_idx, nb, r, bk) ==
    LET band_signature == Band(sig, 0, r) IN
    IF create_bucket_hash_raises(band_signature)
    THEN [candidates |-> cand, status |-> "ValueError"]
    ELSE LET key == create_bucket_hash(0, band_signature) IN
         [candidates |-> IF key \in DOMAIN bk
                         THEN cand \cup {bk[key][i] : i \in 1..Len(bk[key])}
                         ELSE cand,
          status |-> "ok"]

\* the loop of query from band band_idx on: the set of candidates and "ok",
\* or the exception create_bucket_hash raised
RECURSIVE QueryLoop(_, _, _, _, _, _)
QueryLoop(cand, sig, band_idx, nb, r, bk) ==
    IF band_idx >= nb THEN [candidates |-> cand, status |-> "ok"]
    ELSE
        LET band_signature == Band(sig, band_idx, r) IN
        IF create_bucket_hash_raises(band_signature)
        THEN [candidates |-> cand, status |-> "ValueError"]
        ELSE LET key == create_bucket_hash(band_idx, band_signature) IN
             QueryLoop(IF key \in DOMAIN bk
                       THEN cand \cup {bk[key][i] : i \in 1..Len(bk[key])}
                       ELSE cand,
                       sig, band_idx + 1, nb, r, bk)

\* candidates.discard(query_user_id)
Discard(cand, id) == cand \ {id}

\* LSH.__init__(num_bands, rows_per_band)
NewLSH ==
    \E nb \in 1..MaxBands, r \in 1..MaxRows :
        /\ op' = "LSH"
        /\ status' = "ok"
        /\ num_bands' = nb
        /\ rows_per_band' = r
        /\ buckets' = EmptyDict
        /\ signatures' = <<>>
        /\ build_status' = "none"
        /\ n_builds' = 0
        /\ ResetQuery /\ ResetSig /\ ResetMatrix /\ ResetSim /\ ResetCall
        /\ UNCHANGED <<mhVars, hash_call>>

BuildBuckets ==
    /\ n_builds < MaxBuilds
    /\ \E store \in Stores :
        LET res == build_buckets(buckets, store, num_bands, rows_per_band) IN
        /\ op' = "build_buckets"
        /\ status' = res.status
        /\ buckets' = res.buckets
        /\ signatures' = store
        /\ build_status' = res.status
        /\ n_builds' = n_builds + 1
        /\ ResetQuery /\ ResetSig /\ ResetMatrix /\ ResetSim /\ ResetCall
        /\ UNCHANGED <<mhVars, num_bands, rows_per_band, hash_call>>

\* list(candidates) hands the set out in an order of its own
Query ==
    \E sig \in Sigs, id \in UserIds :
        LET res == QueryLoop({}, sig, 0, num_bands, rows_per_band, buckets) IN
        /\ op' = "query"
        /\ status' = res.status
        /\ query_signature' = sig
        /\ query_user_id' = id
        /\ IF res.status = "ok"
             THEN candidates' \in Orders(Discard(res.candidates, id))
             ELSE candidates' = <<>>
        /\ ResetSig /\ ResetMatrix /\ ResetSim /\ ResetCall
        /\ UNCHANGED <<mhVars, lshVars, buildVars, hash_call>>

InitFixedFamily ==
    /\ n_hash_functions = 1
    /\ prime = 3
    /\ type_function = "linear"
    /\ a = <<1>>
    /\ b = <<0>>
    /\ coefficients = <<<<1, 2, 1>>>>

\* one LSH(1, 1) object, nothing built yet
InitLSH ==
    /\ InitFixedFamily
    /\ InitCall

NextLSH == NewLSH \/ BuildBuckets

SpecLSH == InitLSH /\ [][NextLSH]_vars

\* An LSH object after its constructor and one build_buckets call.  Every
\* build starts from an empty index (C8), so these are all the indexes a
\* query can meet.
InitQuery ==
    /\ InitFixedFamily
    /\ op = "build_buckets"
    /\ movie_set = {} /\ signature = NoSignature
    /\ characteristic_matrix = NoMatrix /\ hash_params = <<>> /\ signature_matrix = NoMatrix
    /\ query_signature = NoSignature /\ query_user_id = 0 /\ candidates = <<>>
    /\ signature1 = NoSignature /\ signature2 = NoSignature /\ similarity = NoSimilarity
    /\ args = NoArgs /\ result = NoResult /\ hash_call = NoHashCall
    /\ \E nb \in 1..MaxBands, r \in 1..MaxRows : \E store \in Stores :
         LET res == build_buckets(EmptyDict, store, nb, r) IN
         /\ num_bands = nb
         /\ rows_per_band = r
         /\ buckets = res.buckets
         /\ status = res.status
         /\ build_status = res.status
         /\ signatures = store
         /\ n_builds = 1

NextQuery == Query

SpecQuery == InitQuery /\ [][NextQuery]_vars

----------------------------------------------------------------------------
(* Reading the index                                                       *)

\* random.sample(population, k): k distinct elements in a random order;
\* it raises ValueError when k exceeds the population
RandomSample(population, k) ==
    {smp \in [1..k -> population] : \A i, j \in 1..k : i # j => smp[i] # smp[j]}

\* a mutant of the display loop: each bucket shown is taken out of the index
view_buckets_popping(bk, random_bucket_ids) ==
    [buckets |-> [k \in DOMAIN bk \ Range(random_bucket_ids) |-> bk[k]],
     printed |-> [j \in 1..Len(random_bucket_ids) |->
                     [bucket_id     |-> random_bucket_ids[j],
                      similar_users |-> bk[random_bucket_ids[j]]]]]

\* lines 126-128 for the sample drawn: the lines printed, and the index as
\* the loop leaves it
view_buckets(bk, random_bucket_ids) ==
    [buckets |-> bk,
     printed |-> [j \in 1..Len(random_bucket_ids) |->
                     [bucket_id     |-> random_bucket_ids[j],
                      similar_users |-> bk[random_bucket_ids[j]]]]]

\* LSH.view_buckets(num_buckets)
ViewBuckets ==
    \E num_buckets \in 0..MaxView :
        /\ op' = "view_buckets"
        /\ IF RandomSample(DOMAIN buckets, num_buckets) = {}
             THEN /\ status' = "ValueError"
                  /\ buckets' = buckets
                  /\ result' = NoResult
             ELSE \E random_bucket_ids \in RandomSample(DOMAIN buckets, num_buckets) :
                  LET res == view_buckets(buckets, random_bucket_ids) IN
                  /\ status' = "ok"
                  /\ buckets' = res.buckets
                  /\ result' = [kind |-> "printed", lines |-> res.printed]
        /\ args' = [fn |-> "view_buckets", num_buckets |-> num_buckets]
        /\ ResetQuery /\ ResetSig /\ ResetMatrix /\ ResetSim
        /\ UNCHANGED <<mhVars, num_bands, rows_per_band, buildVars, hash_call>>

NextReads == Query \/ ViewBuckets

SpecReads == InitQuery /\ [][NextReads]_vars

----------------------------------------------------------------------------
(* The characteristic matrix                                               *)

\* keys of a user_movies dict: ids numbered from 1, and 0 and one id beyond
UserKeys == 0..(MaxUsers + 1)

\* all_movies in its iteration order: the items of a non-empty universe
AllMovies == UNION {Orders(U) : U \in ItemSets \ {{}}}

\* user_movies in its iteration order: at most MaxUsers distinct keys
UserMovies ==
    UNION {{um \in [1..k -> [user : UserKeys, movies : ItemSets]] :
                \A i, j \in 1..k : i # j => um[i].user # um[j].user} : k \in 0..MaxUsers}

\* movie_to_index[movie]: the 0-based place of movie in all_movies
movie_to_index(all_movies, movie) ==
    (CHOOSE i \in 1..Len(all_movies) : all_movies[i] = movie) - 1

\* numpy's index check on an axis of `size` entries: a negative index
\* counts from the end
IndexInBounds(index, size) == (-size) <= index /\ index <= size - 1
WrapIndex(index, size)     == IF index < 0 THEN size + index ELSE index

\* the two loops of lines 32-34 over the (user, movie) pairs still to do
RECURSIVE CharacteristicLoop(_, _, _, _)
CharacteristicLoop(cm, pairs, all_movies, n_users) ==
    IF pairs = <<>> THEN [status |-> "ok", matrix |-> cm]
    ELSE
        LET user  == Head(pairs)[1]
            movie == Head(pairs)[2]
        IN  IF movie \notin Range(all_movies)
                THEN [status |-> "KeyError", matrix |-> NoMatrix]
            ELSE IF ~IndexInBounds(user - 1, n_users)
                THEN [status |-> "IndexError", matrix |-> NoMatrix]
            ELSE CharacteristicLoop(
                    [cm EXCEPT ![movie_to_index(all_movies, movie) + 1]
                                  [WrapIndex(user - 1, n_users) + 1] = 1],
                    Tail(pairs), all_movies, n_users)

\* create_characteristic_matrix(ratings, all_movies, user_movies), the
\* loops running through `pairs`
create_characteristic_matrix(all_movies, user_movies, pairs) ==
    LET n_users  == Len(user_movies)
        n_movies == Len(all_movies)
        zeros    == [row \in 1..n_movies |-> [col \in 1..n_users |-> 0]]
    IN  CharacteristicLoop(zeros, pairs, all_movies, n_users)

\* the (user, movie) pairs in the orders the dict and its sets can hand
\* them out: the users in dict order, each user's movies in any order
RECURSIVE PairOrders(_)
PairOrders(user_movies) ==
    IF user_movies = <<>> THEN {<<>>}
    ELSE LET e == Head(user_movies) IN
         {[i \in 1..Len(o) |-> <<e.user, o[i]>>] \o rest :
              o \in Orders(e.movies), rest \in PairOrders(Tail(user_movies))}

CreateCharacteristicMatrix ==
    /\ op = "init"
    /\ args.fn = "create_characteristic_matrix"
    /\ \E pairs \in PairOrders(args.user_movies) :
        LET res == create_characteristic_matrix(args.all_movies, args.user_movies, pairs) IN
        /\ op' = "create_characteristic_matrix"
        /\ status' = res.status
        /\ characteristic_matrix' = res.matrix
    /\ UNCHANGED <<mhVars, sigVars, hash_params, signature_matrix, lshVars, buildVars,
                   queryVars, simVars, callVars, hash_call>>

InitCharacteristic ==
    /\ InitFixedFamily
    /\ InitState
    /\ \E all_movies \in AllMovies : \E user_movies \in UserMovies :
          args = [fn |-> "create_characteristic_matrix",
                  all_movies |-> all_movies, user_movies |-> user_movies]

NextCharacteristic == CreateCharacteristicMatrix

SpecCharacteristic == InitCharacteristic /\ [][NextCharacteristic]_vars

----------------------------------------------------------------------------
(* C16                                                                     *)

\* C16: when every item set lies within the universe, whatever the entity
\* ids are, the matrix has one row per item of the universe and one column
\* per entity, each entity having a column of its own whose entry in the
\* row of item m is 1 if the entity's set contains m and 0 if not.
C16_MembershipMatrix ==
    (/\ op = "create_characteristic_matrix"
     /\ \A e \in 1..Len(args.user_movies) :
            args.user_movies[e].movies \subseteq Range(args.all_movies)) =>
        LET n_movies == Len(args.all_movies)
            n_users  == Len(args.user_movies)
            cm       == characteristic_matrix
        IN  /\ status = "ok"
            /\ Len(cm) = n_movies
            /\ \A row \in 1..n_movies : Len(cm[row]) = n_users
            /\ \E column \in [1..n_users -> 1..n_users] :
                  /\ \A e1, e2 \in 1..n_users : e1 # e2 => column[e1] # column[e2]
                  /\ \A e \in 1..n_users : \A row \in 1..n_movies :
                        cm[row][column[e]] =
                            IF args.all_movies[row] \in args.user_movies[e].movies
                            THEN 1 ELSE 0

----------------------------------------------------------------------------
(* The collision probability curve                                         *)

\* np.linspace(0, 1, GridPoints): the similarities j / (GridPoints - 1),
\* each kept as an exact quotient [num, den]
Linspace == [j \in 1..GridPoints |-> [num |-> j - 1, den |-> GridPoints - 1]]

\* a mutant of the formula: the complement, (1 - s**r)**b
no_collision_probability(s, r, bv) ==
    [num |-> Pow(Pow(s.den, r) - Pow(s.num, r), bv),
     den |-> Pow(s.den, r * bv)]

\* 1 - (1 - s**r)**b for s = s.num / s.den and b = bv, over the denominator
\* s.den**(r*bv); x**0 is 1 for every x, 0 included
probability(s, r, bv) ==
    [num |-> Pow(s.den, r * bv) - Pow(Pow(s.den, r) - Pow(s.num, r), bv),
     den |-> Pow(s.den, r * bv)]

\* the loop over band_values from entry j on; n // b raises for b = 0
RECURSIVE CurveLoop(_, _, _, _)
CurveLoop(curves, n, band_values, j) ==
    IF j > Len(band_values) THEN [status |-> "ok", curves |-> curves]
    ELSE
        LET bv == band_values[j] IN
        IF bv = 0 THEN [status |-> "ZeroDivisionError", curves |-> curves]
        ELSE LET r == n \div bv IN
             CurveLoop(Append(curves,
                              [b |-> bv, r |-> r,
                               probability |-> [k \in 1..GridPoints |->
                                                   probability(Linspace[k], r, bv)]]),
                       n, band_values, j + 1)

\* plot_probability_curve(n, band_values): the curves handed to plt.plot
PlotProbabilityCurve ==
    /\ op = "init"
    /\ args.fn = "plot_probability_curve"
    /\ LET res == CurveLoop(<<>>, args.n, args.band_values, 1) IN
        /\ op' = "plot_probability_curve"
        /\ status' = res.status
        /\ result' = [kind |-> "curves", curves |-> res.curves]
    /\ UNCHANGED <<mhVars, sigVars, matrixVars, lshVars, buildVars, queryVars, simVars,
                   args, hash_call>>

InitCurve ==
    /\ InitFixedFamily
    /\ InitState
    /\ \E n \in 1..MaxCurveN :
         \E band_values \in UNION {[1..l -> 0..MaxBandValue] : l \in 1..2} :
            args = [fn |-> "plot_probability_curve", n |-> n, band_values |-> band_values]

NextCurve == PlotProbabilityCurve

SpecCurve == InitCurve /\ [][NextCurve]_vars

----------------------------------------------------------------------------
(* C17                                                                     *)

\* C17: for n >= 1 and every b >= 1 the curve of 1 - (1 - s^r)^b with
\* r = n // b is exactly 1 at s = 1, exactly 0 at s = 0 when r >= 1, and
\* never falls as s grows.
C17_CurveEndpointsMonotone ==
    op = "plot_probability_curve" =>
        /\ (\A j \in 1..Len(args.band_values) : args.band_values[j] >= 1) =>
              (status = "ok" /\ Len(result.curves) = Len(args.band_values))
        /\ \A j \in 1..Len(result.curves) :
              LET curve == result.curves[j]
                  p     == curve.probability
              IN  /\ curve.b = args.band_values[j]
                  /\ curve.r = args.n \div curve.b
                  /\ Len(p) = GridPoints
                  /\ p[GridPoints].num = p[GridPoints].den
                  /\ curve.r >= 1 => p[1].num = 0
                  /\ \A k \in 1..(GridPoints - 1) :
                        p[k].num * p[k + 1].den <= p[k + 1].num * p[k].den

\* a curve of two bands of two rows, which rises strictly between 0 and 1
C17_Witness ==
    /\ op = "plot_probability_curve" /\ status = "ok"
    /\ \E j \in 1..Len(result.curves) :
          LET curve == result.curves[j] IN
          /\ curve.b = 2 /\ curve.r = 2
          /\ curve.probability[1].num = 0
          /\ curve.probability[2].num > 0
          /\ curve.probability[2].num < curve.probability[3].num
          /\ curve.probability[3].num < curve.probability[3].den

----------------------------------------------------------------------------
(* Signatures of a whole user_movies dict                                  *)

\* the default of prime_number, which generate_signatures leaves in place
DefaultPrime == 10513

\* movie ids of the user sets: a small one and one as large as the default
\* prime (the ids of a ratings table are not bounded by it)
MovieIds == {1, DefaultPrime}

\* user_movies in its iteration order, with keys among the user ids
UserMovieSets ==
    UNION {{um \in [1..k -> [user : UserIds, movies : SUBSET MovieIds]] :
                \A i, j \in 1..k : i # j => um[i].user # um[j].user} : k \in 0..MaxUsers}

\* the dicts the loop of lines 113-114 can build on the object at hand:
\* one create_signature call per user, each set in an order of its own
RECURSIVE SignaturesLoop(_, _)
SignaturesLoop(user_movies, c) ==
    IF user_movies = <<>> THEN {<<>>}
    ELSE LET e == Head(user_movies) IN
         {<<[user_id |-> e.user, signature |-> create_signature(order, c)]>> \o rest :
              order \in Orders(e.movies), rest \in SignaturesLoop(Tail(user_movies), c)}

\* generate_signatures(user_movies, num_hash_function, function_name): the
\* MinHash object it constructs is held in the object's fields
GenerateSignatures ==
    /\ op = "init"
    /\ args.fn = "generate_signatures"
    /\ op' = "generate_signatures"
    /\ args' = args
    /\ IF init_raises(args.num_hash_function, DefaultPrime, args.function_name)
         THEN /\ status' = "ValueError"
              /\ n_hash_functions' = 0
              /\ prime' = 0
              /\ type_function' = NoType
              /\ a' = <<>>
              /\ b' = <<>>
              /\ coefficients' = <<>>
              /\ result' = NoResult
         ELSE \E f \in Families(args.num_hash_function, DefaultPrime, args.function_name) :
              /\ status' = "ok"
              /\ n_hash_functions' = f.n_hash_functions
              /\ prime' = f.prime
              /\ type_function' = f.type_function
              /\ a' = f.a
              /\ b' = f.b
              /\ coefficients' = f.coefficients
              /\ \E c \in CastOfInf :
                    \E sigs \in (SignaturesLoop(args.user_movies, c))' :
                        result' = [kind |-> "signatures", signatures |-> sigs]
    /\ UNCHANGED <<sigVars, matrixVars, lshVars, buildVars, queryVars, simVars, hash_call>>

\* the arguments of a generate_signatures call, or no arguments yet when a
\* matrix function is the one to be called
InitFamilies ==
    /\ InitFixedFamily
    /\ InitState
    /\ \/ args = NoArgs
       \/ \E user_movies \in UserMovieSets : \E n \in 0..MaxN : \E kind \in TypeArgs :
             args = [fn |-> "generate_signatures", user_movies |-> user_movies,
                     num_hash_function |-> n, function_name |-> kind]

NextFamilies ==
    \/ GenerateSignatures
    \/ (FirstCall /\ args = NoArgs) /\ GenerateMinhashSignaturesWithInteraction
    \/ (FirstCall /\ args = NoArgs) /\ GenerateMinhashSignatures

SpecFamilies == InitFamilies /\ [][NextFamilies]_vars

----------------------------------------------------------------------------
(* C20                                                                     *)

\* C20: the modulus of the family that produced signatures is above every
\* item id that was hashed: the prime of the MinHash object generate_signatures
\* constructs is above every movie id of the user sets, and on the matrix
\* path next_prime(n_movies) is above every row index.
C20_PrimeAboveItemIds ==
    /\ (op = "generate_signatures" /\ status = "ok") =>
          \A e \in 1..Len(args.user_movies) :
              \A movie_id \in args.user_movies[e].movies : prime > movie_id
    /\ (/\ op \in {"generate_minhash_signatures",
                   "generate_minhash_signatures_with_interaction"}
        /\ status = "ok") =>
          \A row \in 0..(Len(characteristic_matrix) - 1) :
              next_prime(Len(characteristic_matrix)) > row

----------------------------------------------------------------------------
(* Similarity estimates                                                    *)

\* the signature arrays compared: 1..MaxN+1 entries, so that arrays shorter
\* than, as long as and longer than n_hash_functions all occur
SimSigs ==
    {[dtype |-> "int", vals |-> v] : v \in UNION {[1..l -> {0, 1}] : l \in 1..(MaxN + 1)}}

\* numpy's `x == y` on two one-dimensional arrays.  Arrays of one length
\* compare entry by entry and an array of one entry is broadcast against the
\* other.  Any other pair of lengths raises ValueError from numpy 1.25 on
\* and gives the scalar False before that.
ArrayEqualResults(x, y) ==
    LET lx == Len(x.vals)
        ly == Len(y.vals)
    IN  IF lx = ly
            THEN {[status |-> "ok", eq |-> [i \in 1..lx |-> x.vals[i] = y.vals[i]]]}
        ELSE IF lx = 1
            THEN {[status |-> "ok", eq |-> [i \in 1..ly |-> x.vals[1] = y.vals[i]]]}
        ELSE IF ly = 1
            THEN {[status |-> "ok", eq |-> [i \in 1..lx |-> x.vals[i] = y.vals[1]]]}
        ELSE {[status |-> "ValueError", eq |-> <<>>],
              [status |-> "ok", eq |-> <<FALSE>>]}

\* np.sum of a boolean array: the number of True entries
NpSum(eq) == Cardinality({i \in 1..Len(eq) : eq[i]})

\* MinHash.jaccard_similarity for an object with n hash functions, given
\* the outcome cmp of `signature1 == signature2`
jaccard_similarity(n, cmp) == [num |-> NpSum(cmp.eq), den |-> n]

\* np.mean of a boolean array
NpMean(eq) == [num |-> NpSum(eq), den |-> Len(eq)]

JaccardSimilarity ==
    \E s1, s2 \in SimSigs : \E cmp \in ArrayEqualResults(s1, s2) :
        /\ op' = "jaccard_similarity"
        /\ signature1' = s1
        /\ signature2' = s2
        /\ status' = cmp.status
        /\ similarity' = IF cmp.status = "ok"
                           THEN jaccard_similarity(n_hash_functions, cmp)
                           ELSE NoSimilarity
        /\ ResetSig /\ ResetMatrix /\ ResetQuery /\ ResetCall
        /\ UNCHANGED <<mhVars, lshVars, buildVars, hash_call>>

\* One pair of compute_similarities (lines 143-147): a MinHash object is
\* constructed with n_hash_functions = hash_functions and estimates the
\* similarity of two stored signatures.  The object is dropped afterwards.
ComputeSimilaritiesPair ==
    \E hash_functions \in 1..MaxN :
      \E s1, s2 \in SimSigs : \E cmp \in ArrayEqualResults(s1, s2) :
        /\ op' = "compute_similarities"
        /\ signature1' = s1
        /\ signature2' = s2
        /\ status' = cmp.status
        /\ similarity' = IF cmp.status = "ok"
                           THEN jaccard_similarity(hash_functions, cmp)
                           ELSE NoSimilarity
        /\ ResetSig /\ ResetMatrix /\ ResetQuery /\ ResetCall
        /\ UNCHANGED <<mhVars, lshVars, buildVars, hash_call>>

\* compute_jaccard_similarity(signature_matrix, user1_idx, user2_idx) of
\* lsh_functions.py: the two arrays are columns of one matrix
ComputeJaccardSimilarity ==
    \E s1, s2 \in SimSigs :
        /\ Len(s1.vals) = Len(s2.vals)
        /\ op' = "compute_jaccard_similarity"
        /\ signature1' = [s1 EXCEPT !.dtype = "float"]
        /\ signature2' = [s2 EXCEPT !.dtype = "float"]
        /\ status' = "ok"
        /\ similarity' = NpMean([i \in 1..Len(s1.vals) |-> s1.vals[i] = s2.vals[i]])
        /\ ResetSig /\ ResetMatrix /\ ResetQuery /\ ResetCall
        /\ UNCHANGED <<mhVars, lshVars, buildVars, hash_call>>

\* a MinHash object of each size, with one draw of its coefficients
InitSimilarity == InitSignatures

NextSimilarity == JaccardSimilarity \/ ComputeSimilaritiesPair \/ ComputeJaccardSimilarity

SpecSimilarity == InitSimilarity /\ [][NextSimilarity]_vars

----------------------------------------------------------------------------
(* Exact similarity                                                        *)

\* exact_jaccard_similarity(sig1, sig2) on two Python sets: the true
\* division of the two lengths, which raises when the divisor is 0
exact_jaccard_similarity(sig1, sig2) ==
    LET intersection == Cardinality(sig1 \cap sig2)
        union        == Cardinality(sig1 \cup sig2)
    IN  IF union = 0
        THEN [status |-> "ZeroDivisionError", value |-> NoResult]
        ELSE [status |-> "ok",
              value  |-> [kind |-> "float", num |-> intersection, den |-> union]]

ExactJaccardSimilarity ==
    /\ op = "init"
    /\ args.fn = "exact_jaccard_similarity"
    /\ LET res == exact_jaccard_similarity(args.sig1, args.sig2) IN
        /\ op' = "exact_jaccard_similarity"
        /\ status' = res.status
        /\ result' = res.value
    /\ UNCHANGED <<mhVars, sigVars, matrixVars, lshVars, buildVars, queryVars, simVars,
                   args, hash_call>>

\* the two item sets the function is about to be applied to
InitExactJaccard ==
    /\ InitFixedFamily
    /\ InitState
    /\ \E A, B \in ItemSets :
          args = [fn |-> "exact_jaccard_similarity", sig1 |-> A, sig2 |-> B]

NextExactJaccard == ExactJaccardSimilarity

SpecExactJaccard == InitExactJaccard /\ [][NextExactJaccard]_vars

----------------------------------------------------------------------------
(* C11                                                                     *)

\* C11: exact_jaccard_similarity(A, B) returns |A intersect B| / |A union B|
\* when one of the sets is non-empty, and fails with UndefinedSimilarity,
\* neither with an arithmetic fault nor with a number, when both are empty.
C11_ExactJaccardOrUndefined ==
    op = "exact_jaccard_similarity" =>
        IF args.sig1 = {} /\ args.sig2 = {}
        THEN status = "UndefinedSimilarity"
        ELSE /\ status = "ok"
             /\ result.num * Cardinality(args.sig1 \cup args.sig2)
                    = Cardinality(args.sig1 \cap args.sig2) * result.den

----------------------------------------------------------------------------
(* The methods of one MinHash object, called in any order                  *)

\* an object of each size, modulus and kind, with one draw of its
\* coefficients
InitPurity ==
    /\ \E n \in 1..MaxN : \E p \in PrimeNumbers : \E kind \in ValidTypes :
            /\ n_hash_functions = n
            /\ prime = p
            /\ type_function = kind
            /\ a = [i \in 1..n |-> 1]
            /\ b = [i \in 1..n |-> i % 2]
            /\ coefficients = [i \in 1..n |-> IF i % 2 = 1 THEN <<1, 2, 1>> ELSE <<2, 1, 2>>]
    /\ InitCall

NextPurity == HashFunction \/ CreateSignature \/ JaccardSimilarity

SpecPurity == InitPurity /\ [][NextPurity]_vars

----------------------------------------------------------------------------
(* C15                                                                     *)

\* C15: a call of hash_function, create_signature or jaccard_similarity
\* leaves n_hash_functions, prime, type_function, a, b and coefficients as
\* they were, and a hash_function call with the key and index of the
\* previous hash_function call, whatever was called in between, returns the
\* value that call returned.
C15_FamilyUnchangedHashRepeatable ==
    [][/\ op' \in {"hash_function", "create_signature", "jaccard_similarity"}
            => mhVars' = mhVars
       /\ (/\ op' = "hash_function"
           /\ hash_call # NoHashCall
           /\ hash_call'.x = hash_call.x
           /\ hash_call'.i = hash_call.i)
            => (status' = "ok" /\ hash_call'.value = hash_call.value)]_vars

\* a hash_function call that repeats the last one after a create_signature
\* call on a non-empty set came in between
C15_Witness ==
    /\ op = "create_signature" /\ status = "ok" /\ movie_set # {}
    /\ hash_call # NoHashCall
    /\ hash_call.x \in movie_set
    /\ n_hash_functions = 2
    /\ type_function = "universal"

----------------------------------------------------------------------------
(* C9                                                                      *)

\* the positions at which two arrays of one length agree
Matches(x, y) == Cardinality({i \in 1..Len(x.vals) : x.vals[i] = y.vals[i]})

\* C9: jaccard_similarity returns the number of equal positions divided by
\* the signatures' length when the lengths agree, and fails with a length
\* mismatch error when they differ.
C9_FractionOrLengthMismatch ==
    op = "jaccard_similarity" =>
        IF Len(signature1.vals) = Len(signature2.vals)
        THEN /\ status = "ok"
             /\ similarity.num * Len(signature1.vals)
                    = Matches(signature1, signature2) * similarity.den
        ELSE status # "ok"

----------------------------------------------------------------------------
(* C10                                                                     *)

\* C10: the estimate of a signature against itself is 1.0, whichever MinHash
\* object makes the comparison, the one compute_similarities constructs
\* included.
C10_SelfSimilarityIsOne ==
    (op \in {"jaccard_similarity", "compute_similarities"} /\ signature1 = signature2) =>
        (status = "ok" /\ similarity.num = similarity.den)

----------------------------------------------------------------------------
(* What the claims about the bucket index are stated in                    *)

Bands == 0..(num_bands - 1)

\* the stored signature of a user id of the store
SigOf(id) ==
    signatures[CHOOSE e \in 1..Len(signatures) : signatures[e].user_id = id].signature

\* num_bands * rows_per_band is the length of every stored signature
LayoutOk ==
    \A e \in 1..Len(signatures) :
        num_bands * rows_per_band = Len(signatures[e].signature.vals)

\* band `band` of a signature that the layout fits: rows_per_band entries
BandValues(sig, band) ==
    [i \in 1..rows_per_band |-> sig.vals[band * rows_per_band + i]]

\* the key under which band `band` of `sig` is filed
KeyOf(sig, band) == create_bucket_hash(band, Band(sig, band, rows_per_band))

\* The (entity, band) pairs of a build in processing order: pair number w
\* is entity (w-1) \div num_bands + 1, band (w-1) % num_bands.
WorkEntity(w) == ((w - 1) \div num_bands) + 1
WorkBand(w)   == (w - 1) % num_bands
WorkSig(w)    == signatures[WorkEntity(w)].signature
WorkRaises(w) == create_bucket_hash_raises(Band(WorkSig(w), WorkBand(w), rows_per_band))

\* the pairs a build files before create_bucket_hash first raises
WorkDone ==
    LET total == Len(signatures) * num_bands
        bad   == {w \in 1..total : WorkRaises(w)}
    IN  IF bad = {} THEN 1..total
        ELSE {w \in 1..total : \A x \in bad : w < x}

\* the index a fresh LSH object holds after one build over `signatures`:
\* under each key, the users of the pairs filed under it, in processing order
FreshIndex ==
    LET keys == {KeyOf(WorkSig(w), WorkBand(w)) : w \in WorkDone}
        Filed(k) == {w \in WorkDone : KeyOf(WorkSig(w), WorkBand(w)) = k}
        \* the n-th smallest pair number of a set of pair numbers
        Nth(W, n) == CHOOSE w \in W : Cardinality({x \in W : x < w}) = n - 1
    IN  [k \in keys |->
            [n \in 1..Cardinality(Filed(k)) |->
                signatures[WorkEntity(Nth(Filed(k), n))].user_id]]

----------------------------------------------------------------------------
(* C3                                                                      *)

\* C3: after a build, two users share a bucket only if for one band index
\* their band slices are pointwise identical, and the slices of different
\* band indices never get the same bucket key.
C3_SharedBucketOnlySameBand ==
    (build_status = "ok" /\ LayoutOk) =>
        /\ \A k \in DOMAIN buckets : \A u, v \in Range(buckets[k]) :
              u # v => \E band \in Bands :
                          BandValues(SigOf(u), band) = BandValues(SigOf(v), band)
        /\ \A e1, e2 \in 1..Len(signatures) : \A b1, b2 \in Bands :
              b1 # b2 => KeyOf(signatures[e1].signature, b1)
                            # KeyOf(signatures[e2].signature, b2)

----------------------------------------------------------------------------
(* C4                                                                      *)

\* C4: when the build has returned and two distinct user ids of the store
\* have the same full signature, both ids are in the bucket of each of the
\* num_bands band keys of that signature, and a query on that signature
\* that excludes one of them returns the other.
C4_IdenticalSignaturesCollide ==
    build_status = "ok" =>
        \A e1, e2 \in 1..Len(signatures) :
            (e1 # e2 /\ signatures[e1].signature = signatures[e2].signature) =>
                LET sig == signatures[e1].signature
                    id1 == signatures[e1].user_id
                    id2 == signatures[e2].user_id
                IN  /\ \A band \in Bands :
                          /\ KeyOf(sig, band) \in DOMAIN buckets
                          /\ {id1, id2} \subseteq Range(buckets[KeyOf(sig, band)])
                    /\ (op = "query" /\ query_signature = sig /\ query_user_id = id1) =>
                          (status = "ok" /\ id2 \in Range(candidates))

\* two users with one two-band signature, queried for one of them
C4_Witness ==
    /\ op = "query" /\ status = "ok" /\ build_status = "ok"
    /\ num_bands = 2 /\ LayoutOk
    /\ Len(signatures) = 2
    /\ signatures[1].signature = signatures[2].signature
    /\ query_signature = signatures[1].signature
    /\ query_user_id = signatures[1].user_id
    /\ candidates = <<signatures[2].user_id>>

----------------------------------------------------------------------------
(* C5                                                                      *)

\* the users filed under key k, none if the key is absent
BucketUsers(k) == IF k \in DOMAIN buckets THEN Range(buckets[k]) ELSE {}

\* C5: a query that returns gives exactly the union, over the band indices
\* 0..num_bands-1, of the users in the bucket of (band index, band of the
\* query signature), without query_user_id and without repetition.
C5_QueryIsUnionOfBands ==
    (op = "query" /\ status = "ok") =>
        /\ Range(candidates) =
              UNION {BucketUsers(KeyOf(query_signature, band)) : band \in Bands}
                 \ {query_user_id}
        /\ \A i, j \in 1..Len(candidates) : i # j => candidates[i] # candidates[j]
        /\ query_user_id \notin Range(candidates)

\* a candidate found through the second band only, while the excluded user
\* is itself in one of the query's buckets
C5_Witness ==
    /\ op = "query" /\ status = "ok" /\ num_bands = 2
    /\ candidates # <<>>
    /\ \E c \in Range(candidates) :
          /\ c \notin BucketUsers(KeyOf(query_signature, 0))
          /\ c \in BucketUsers(KeyOf(query_signature, 1))
    /\ \E band \in Bands : query_user_id \in BucketUsers(KeyOf(query_signature, band))

----------------------------------------------------------------------------
(* C6                                                                      *)

\* C6: a build over a store in which some signature's length is not
\* num_bands * rows_per_band fails with BandLayoutMismatch.
C6_LayoutMismatchFails ==
    (op = "build_buckets" /\ ~LayoutOk) => status = "BandLayoutMismatch"

----------------------------------------------------------------------------
(* C7                                                                      *)

\* C7: a build that fails leaves the index exactly as it was before the call.
C7_FailedBuildKeepsIndex ==
    [][(op' = "build_buckets" /\ status' # "ok") => buckets' = buckets]_vars

----------------------------------------------------------------------------
(* C8                                                                      *)

\* C8: after any sequence of builds the index is the one a fresh LSH object
\* with the same (num_bands, rows_per_band) holds after a single build over
\* the last store; nothing of an earlier build is left.
C8_IndexIsFreshBuild == buckets = FreshIndex

\* a second build on one object, over a store that fills the index
C8_Witness ==
    /\ op = "build_buckets" /\ status = "ok"
    /\ n_builds = 2
    /\ Len(signatures) = 1
    /\ buckets # EmptyDict

----------------------------------------------------------------------------
(* C19                                                                     *)

\* the place of a user id in the store's processing order
EntityOf(id) == CHOOSE e \in 1..Len(signatures) : signatures[e].user_id = id

\* C19: after a build over a store (its user ids are distinct) whose
\* signatures fit the layout, no bucket's list holds a user id twice, and
\* the ids of each list stand in the order in which the build took the users.
C19_NoDuplicatesProcessingOrder ==
    (op = "build_buckets" /\ status = "ok" /\ LayoutOk) =>
        \A k \in DOMAIN buckets :
            \A i, j \in 1..Len(buckets[k]) :
                i < j => /\ buckets[k][i] # buckets[k][j]
                         /\ EntityOf(buckets[k][i]) < EntityOf(buckets[k][j])

----------------------------------------------------------------------------
(* C18                                                                     *)

\* C18: a query or view_buckets call, returning or failing, leaves the
\* index (every key, every list and its order), num_bands and rows_per_band
\* as they were, so that a query made after any number of such calls
\* returns what it returns on the index of the last build.
C18_ReadsLeaveIndex ==
    /\ [][op' \in {"query", "view_buckets"} =>
            /\ buckets' = buckets
            /\ num_bands' = num_bands
            /\ rows_per_band' = rows_per_band]_vars
    /\ []((op = "query" /\ status = "ok") =>
            Range(candidates) =
               Discard(QueryLoop({}, query_signature, 0, num_bands, rows_per_band,
                                 FreshIndex).candidates,
                       query_user_id))

\* two buckets displayed, one of them holding two users
C18_Witness ==
    /\ op = "view_buckets" /\ status = "ok"
    /\ Len(result.lines) = 2
    /\ \E j \in 1..2 : Len(result.lines[j].similar_users) = 2
    /\ buckets # EmptyDict

====
